---- MODULE Spec2Model ----
(***************************************************************************)
(* react-native-toolbox: FS.uploadFiles (src/src/FS/index.tsx) and the     *)
(* picker wrappers Camera.open, FS.openImageLibrary,                       *)
(* FS.openSingleFilePicker and FS.openMultipleFilePicker.                  *)
(*                                                                         *)
(* One behaviour of the model is one call of one entry point of the        *)
(* toolbox on a single-threaded event loop: the synchronous part of the    *)
(* call, the settlements of the promises it waits for in any order, and    *)
(* the continuation after the await.                                       *)
(***************************************************************************)
EXTENDS Integers, Sequences, FiniteSets, TLC

VARIABLES
    api,         \* the entry point that was called
    files,       \* uploadFiles: argument `files`
    strict,      \* uploadFiles: argument `strict` ("undefined" when omitted)
    pc,          \* uploadFiles: "map", "await", "done"; "idle" for a picker call
    requests,    \* the fetch calls made so far, in call order
    promises,    \* the promises fetch returned, by index of the file
    joined,      \* the promise of Promise.all / Promise.allSettled
    result,      \* the promise uploadFiles returned
    settleLog,   \* history: indices of the requests in the order they settled
    callbacks,   \* pickers: whether the caller's callbacks throw
    pickRequest, \* pickers: the options handed to the platform picker
    response,    \* pickers: what the platform picker reported
    calls,       \* pickers: the callback invocations made, in order
    ppc,         \* pickers: "launched", "done"; "idle" for an upload call
    outcome      \* pickers: how the handler ended

vars == <<api, files, strict, pc, requests, promises, joined, result, settleLog,
          callbacks, pickRequest, response, calls, ppc, outcome>>

uploadVars == <<files, strict, pc, requests, promises, joined, result, settleLog>>
pickerVars == <<callbacks, pickRequest, response, calls, ppc, outcome>>

-----------------------------------------------------------------------------
(* Bounds *)

MaxFiles == 3

-----------------------------------------------------------------------------
(* Values *)

Undefined == "undefined"

\* A JavaScript string as the sequence of its characters.
ImagePng == <<"i", "m", "a", "g", "e", "/", "p", "n", "g">>
ApplicationPdf == <<"a", "p", "p", "l", "i", "c", "a", "t", "i", "o", "n", "/", "p", "d", "f">>
ImageWord == <<"i", "m", "a", "g", "e">>

\* An asset of the image picker (fileName) and a document of the document
\* picker (name), both typed Asset & DocumentPickerResponse by FileToUpload.
AssetFile ==
    [data |-> [type |-> ImagePng, uri |-> "file:///a.png",
               fileName |-> "a.png", name |-> Undefined],
     uploadUrl |-> "https://host/a"]

DocumentFile ==
    [data |-> [type |-> ApplicationPdf, uri |-> "file:///b.pdf",
               fileName |-> Undefined, name |-> "b.pdf"],
     uploadUrl |-> "https://host/b"]

FileSet == {AssetFile, DocumentFile}

FileLists == UNION {[1..n -> FileSet] : n \in 0..MaxFiles}

\* the argument `strict`: a Boolean, or omitted
StrictArgs == {"true", "false", Undefined}

\* fetch fulfils with a Response whatever its HTTP status, and rejects with
\* a network error.
Responses == {[status |-> 200], [status |-> 500]}
NetworkErrors == {"Network request failed", "Aborted"}

\* no promise yet
NoPromise == [status |-> "none"]
Pending == [status |-> "pending"]
Fulfilled(v) == [status |-> "fulfilled", value |-> v]
Rejected(e) == [status |-> "rejected", reason |-> e]

Settlements == {Fulfilled(v) : v \in Responses} \cup {Rejected(e) : e \in NetworkErrors}

-----------------------------------------------------------------------------
(* Pure functions of FS/index.tsx *)

\* String.prototype.includes
Includes(s, sub) ==
    \E i \in 0..(Len(s) - Len(sub)) : SubSeq(s, i + 1, i + Len(sub)) = sub

determineFileOrImage(fileType) ==
    IF Includes(fileType, ImageWord) THEN "image" ELSE "file"

\* a || b on strings: the empty string and undefined are falsy
OrElse(a, b) == IF a # Undefined /\ a # "" THEN a ELSE b

\* the FormData built for one file: one field
FormDataOf(file) ==
    << [field |-> determineFileOrImage(file.data.type),
        value |-> [uri |-> file.data.uri,
                   type |-> file.data.type,
                   name |-> OrElse(file.data.fileName, file.data.name)]] >>

\* variant: the request goes to the file's own uri
FetchCallToUri(file) ==
    [url |-> file.data.uri, method |-> "POST", body |-> FormDataOf(file)]

\* the fetch call made for one file
FetchCall(file) ==
    [url |-> file.uploadUrl, method |-> "POST", body |-> FormDataOf(file)]

\* variant: strict defaults to false
StrictDefaultFalse(arg) == IF arg = Undefined THEN "false" ELSE arg

\* strict: Boolean = true
StrictDefault(arg) == IF arg = Undefined THEN "true" ELSE arg

\* if (strict)
Strict == StrictDefault(strict) = "true"

\* Promise.all(promises) at creation
PromiseAllNew(ps) ==
    IF Len(ps) = 0 THEN Fulfilled(<<>>) ELSE Pending

\* variant: a later rejection replaces the reason of an earlier one
PromiseAllReactLastWins(j, ps, i) ==
    IF j.status = "fulfilled" THEN j
    ELSE IF ps[i].status = "rejected" THEN Rejected(ps[i].reason)
    ELSE IF j.status = "pending" /\ \A k \in 1..Len(ps) : ps[k].status = "fulfilled"
         THEN Fulfilled([k \in 1..Len(ps) |-> ps[k].value])
    ELSE j

\* variant: the first fulfilment fulfils the combined promise (Promise.any)
PromiseAllReactAny(j, ps, i) ==
    IF j.status # "pending" THEN j
    ELSE IF ps[i].status = "rejected" THEN Rejected(ps[i].reason)
    ELSE Fulfilled(<<ps[i].value>>)

\* Promise.all's reaction to the settlement of ps[i]; ps is the list after it
PromiseAllReact(j, ps, i) ==
    IF j.status # "pending" THEN j
    ELSE IF ps[i].status = "rejected" THEN Rejected(ps[i].reason)
    ELSE IF \A k \in 1..Len(ps) : ps[k].status = "fulfilled"
         THEN Fulfilled([k \in 1..Len(ps) |-> ps[k].value])
    ELSE j

\* Promise.allSettled(promises) at creation
AllSettledNew(ps) ==
    IF Len(ps) = 0 THEN Fulfilled(<<>>) ELSE Pending

\* Promise.allSettled's reaction to the settlement of ps[i]
AllSettledReact(j, ps, i) ==
    IF j.status # "pending" THEN j
    ELSE IF \A k \in 1..Len(ps) : ps[k].status # "pending"
         THEN Fulfilled(ps)
    ELSE j

RECURSIVE Filter(_, _)
\* Array.prototype.filter with the predicate status === wanted
Filter(s, wanted) ==
    IF s = <<>> THEN <<>>
    ELSE IF Head(s).status = wanted
         THEN <<Head(s)>> \o Filter(Tail(s), wanted)
         ELSE Filter(Tail(s), wanted)

\* variant: the filter keeps the fulfilled results
RejectedsOfFulfilled(resolves) == Filter(resolves, "fulfilled")

\* resolves.filter((resolve) => resolve.status === 'rejected')
RejectedsOf(resolves) == Filter(resolves, "rejected")

\* variant: await Promise.all(promises) without the try/catch
StrictOutcomeNoCatch(j) ==
    IF j.status = "fulfilled"
    THEN Fulfilled([status |-> "ALL_FILES_UPLOADED", ok |-> TRUE])
    ELSE Rejected(j.reason)

\* the try/catch around await Promise.all(promises)
StrictOutcome(j) ==
    IF j.status = "fulfilled"
    THEN Fulfilled([status |-> "ALL_FILES_UPLOADED", ok |-> TRUE])
    ELSE Fulfilled([status |-> "AN_UPLOAD_FAILED", ok |-> FALSE, error |-> j.reason])

\* variant: the else branch without the all-failed case
BestEffortOutcomeAlwaysOk(j) ==
    Fulfilled([status |-> "ONE_OR_MORE_UPLOADS_FAILED", ok |-> TRUE,
               failedUploads |-> RejectedsOf(j.value)])

\* the else branch after await Promise.allSettled(promises)
BestEffortOutcome(j) ==
    LET resolves == j.value
        rejecteds == RejectedsOf(resolves)
    IN  IF Len(rejecteds) = Len(resolves)
        THEN Fulfilled([status |-> "ONE_OR_MORE_UPLOADS_FAILED", ok |-> FALSE,
                        failedUploads |-> rejecteds])
        ELSE Fulfilled([status |-> "ONE_OR_MORE_UPLOADS_FAILED", ok |-> TRUE,
                        failedUploads |-> rejecteds])

-----------------------------------------------------------------------------
(* uploadFiles *)

PickerIdle ==
    /\ callbacks = [successThrows |-> FALSE, failureThrows |-> FALSE]
    /\ pickRequest = [kind |-> "none"]
    /\ response = NoPromise
    /\ calls = <<>>
    /\ ppc = "idle"
    /\ outcome = Undefined

\* uploadFiles(files, strict) is called
UploadInit ==
    /\ api = "uploadFiles"
    /\ files \in FileLists
    /\ strict \in StrictArgs
    /\ pc = "map"
    /\ requests = <<>>
    /\ promises = <<>>
    /\ joined = NoPromise
    /\ result = Pending
    /\ settleLog = <<>>
    /\ PickerIdle

\* one iteration of files.map: build the form, call fetch
MapFile ==
    /\ pc = "map"
    /\ Len(promises) < Len(files)
    /\ LET file == files[Len(promises) + 1]
       IN  /\ requests' = Append(requests, FetchCall(file))
           /\ promises' = Append(promises, Pending)
    /\ UNCHANGED <<api, files, strict, pc, joined, result, settleLog>>
    /\ UNCHANGED pickerVars

\* files.map is over: Promise.all or Promise.allSettled is called and awaited
AwaitPromises ==
    /\ pc = "map"
    /\ Len(promises) = Len(files)
    /\ joined' = IF Strict THEN PromiseAllNew(promises) ELSE AllSettledNew(promises)
    /\ pc' = "await"
    /\ UNCHANGED <<api, files, strict, requests, promises, result, settleLog>>
    /\ UNCHANGED pickerVars

\* a fetch promise settles; this runs as a task of the event loop, so never
\* before the synchronous part of uploadFiles is over
SettleRequest ==
    /\ pc \in {"await", "done"}
    /\ \E i \in 1..Len(promises) : \E s \in Settlements :
        /\ promises[i].status = "pending"
        /\ promises' = [promises EXCEPT ![i] = s]
        /\ settleLog' = Append(settleLog, i)
        /\ joined' = IF Strict THEN PromiseAllReact(joined, promises', i)
                               ELSE AllSettledReact(joined, promises', i)
    /\ UNCHANGED <<api, files, strict, pc, requests, result>>
    /\ UNCHANGED pickerVars

\* the awaited promise has settled: uploadFiles resumes and returns
ResumeUpload ==
    /\ pc = "await"
    /\ joined.status # "pending"
    /\ result' = IF Strict THEN StrictOutcome(joined) ELSE BestEffortOutcome(joined)
    /\ pc' = "done"
    /\ UNCHANGED <<api, files, strict, requests, promises, joined, settleLog>>
    /\ UNCHANGED pickerVars

-----------------------------------------------------------------------------
(* The pickers *)

\* an optional value: absent, or present
None == <<>>
Some(v) == <<v>>

\* ErrorCode of react-native-image-picker
ErrorCodes == {"camera_unavailable", "permission", "others"}
ErrorMessages == {Undefined, "Camera not available"}
AssetLists == {<<"asset1">>, <<"asset1", "asset2">>}

\* what launchCamera / launchImageLibrary hand to the callback: a
\* cancellation, an error code with its message, or the assets
ImagePickerResponses ==
    {[didCancel |-> TRUE, errorCode |-> Undefined, errorMessage |-> Undefined,
      assets |-> None]}
    \cup {[didCancel |-> FALSE, errorCode |-> c, errorMessage |-> m, assets |-> None] :
            c \in ErrorCodes, m \in ErrorMessages}
    \cup {[didCancel |-> FALSE, errorCode |-> Undefined, errorMessage |-> Undefined,
           assets |-> Some(a)] : a \in AssetLists}

\* how DocumentPicker.pick settles: the picked documents, the cancellation
\* error, or another error
CancelError == [code |-> "DOCUMENT_PICKER_CANCELED", message |-> "User canceled document picker"]
PickerErrors == {[code |-> "ASYNC_OP_IN_PROGRESS", message |-> "Previous promise did not settle"],
                 [code |-> "UNKNOWN", message |-> Undefined]}
DocumentLists(multi) ==
    IF multi THEN {<<"doc1">>, <<"doc1", "doc2">>} ELSE {<<"doc1">>}
PickSettlements(multi) ==
    {Fulfilled(d) : d \in DocumentLists(multi)}
    \cup {Rejected(e) : e \in PickerErrors \cup {CancelError}}

\* what a throwing callback throws
CallbackError == [code |-> Undefined, message |-> "callback threw"]

CallbackSet == [successThrows : BOOLEAN, failureThrows : BOOLEAN]
AllowedTypes == {Undefined, "application/pdf"}
AllFiles == "*/*"

SuccessCall(assets) == [fn |-> "success", args |-> <<assets>>]
FailureCall(args) == [fn |-> "failure", args |-> args]

Truthy(v) == v # Undefined /\ v # ""

\* Camera/index.tsx: the callback handed to launchCamera
handleCameraResponse(resp, cb) ==
    IF resp.didCancel THEN [calls |-> <<>>, outcome |-> "returned"]
    ELSE LET failed == IF Truthy(resp.errorCode)
                       THEN <<FailureCall(<<resp.errorCode, resp.errorMessage>>)>>
                       ELSE <<>>
         IN  IF failed # <<>> /\ cb.failureThrows
             THEN [calls |-> failed, outcome |-> "threw"]
             ELSE [calls |-> failed \o <<SuccessCall(resp.assets)>>,
                   outcome |-> IF cb.successThrows THEN "threw" ELSE "returned"]

\* FS/index.tsx: the callback handed to launchImageLibrary
handleImageLibraryResponse(resp, cb) ==
    IF resp.didCancel THEN [calls |-> <<>>, outcome |-> "returned"]
    ELSE LET failed == IF Truthy(resp.errorCode)
                       THEN <<FailureCall(<<resp.errorCode, resp.errorMessage>>)>>
                       ELSE <<>>
         IN  IF failed # <<>> /\ cb.failureThrows
             THEN [calls |-> failed, outcome |-> "threw"]
             ELSE [calls |-> failed \o <<SuccessCall(resp.assets)>>,
                   outcome |-> IF cb.successThrows THEN "threw" ELSE "returned"]

\* DocumentPicker.isCancel
isCancel(error) == error.code = "DOCUMENT_PICKER_CANCELED"

\* variant: the catch block without the isCancel test
CatchPickerErrorNoCancel(error, cb) ==
    [calls |-> <<FailureCall(<<error>>)>>,
     outcome |-> IF cb.failureThrows THEN "rejected" ELSE "resolved"]

\* the catch block of handleFilePickerPromise
CatchPickerError(error, cb) ==
    IF isCancel(error) THEN [calls |-> <<>>, outcome |-> "resolved"]
    ELSE [calls |-> <<FailureCall(<<error>>)>>,
          outcome |-> IF cb.failureThrows THEN "rejected" ELSE "resolved"]

\* FS/index.tsx: handleFilePickerPromise, once `promise` has settled as s
handleFilePickerPromise(s, cb) ==
    IF s.status = "fulfilled"
    THEN IF cb.successThrows
         THEN LET caught == CatchPickerError(CallbackError, cb)
              IN  [calls |-> <<SuccessCall(s.value)>> \o caught.calls,
                   outcome |-> caught.outcome]
         ELSE [calls |-> <<SuccessCall(s.value)>>, outcome |-> "resolved"]
    ELSE CatchPickerError(s.reason, cb)

\* the options openSingleFilePicker / openMultipleFilePicker hand to pick
PickOptions(multi, allowedTypes) ==
    [kind |-> "pick", allowMultiSelection |-> multi,
     type |-> IF Truthy(allowedTypes) THEN allowedTypes ELSE AllFiles]

UploadIdle ==
    /\ files = <<>>
    /\ strict = Undefined
    /\ pc = "idle"
    /\ requests = <<>>
    /\ promises = <<>>
    /\ joined = NoPromise
    /\ result = NoPromise
    /\ settleLog = <<>>

PickerLaunched ==
    /\ callbacks \in CallbackSet
    /\ response = NoPromise
    /\ calls = <<>>
    /\ ppc = "launched"
    /\ outcome = Undefined
    /\ UploadIdle

\* Camera.open(successCallback, errorCallback, options)
CameraInit ==
    /\ api = "Camera.open"
    /\ pickRequest = [kind |-> "launchCamera"]
    /\ PickerLaunched

\* FS.openImageLibrary(successCallback, errorCallback, options)
ImageLibraryInit ==
    /\ api = "openImageLibrary"
    /\ pickRequest = [kind |-> "launchImageLibrary"]
    /\ PickerLaunched

\* FS.openSingleFilePicker(successCallback, errorCallback, allowedTypes, options)
SingleFilePickerInit ==
    /\ api = "openSingleFilePicker"
    /\ \E t \in AllowedTypes : pickRequest = PickOptions(FALSE, t)
    /\ PickerLaunched

\* FS.openMultipleFilePicker(successCallback, errorCallback, allowedTypes, options)
MultipleFilePickerInit ==
    /\ api = "openMultipleFilePicker"
    /\ \E t \in AllowedTypes : pickRequest = PickOptions(TRUE, t)
    /\ PickerLaunched

\* the camera reports, and the callback of Camera.open runs
CameraResponds ==
    /\ api = "Camera.open"
    /\ ppc = "launched"
    /\ \E r \in ImagePickerResponses :
        /\ response' = r
        /\ calls' = handleCameraResponse(r, callbacks).calls
        /\ outcome' = handleCameraResponse(r, callbacks).outcome
    /\ ppc' = "done"
    /\ UNCHANGED <<api, callbacks, pickRequest>>
    /\ UNCHANGED uploadVars

\* the image library reports, and the callback of openImageLibrary runs
ImageLibraryResponds ==
    /\ api = "openImageLibrary"
    /\ ppc = "launched"
    /\ \E r \in ImagePickerResponses :
        /\ response' = r
        /\ calls' = handleImageLibraryResponse(r, callbacks).calls
        /\ outcome' = handleImageLibraryResponse(r, callbacks).outcome
    /\ ppc' = "done"
    /\ UNCHANGED <<api, callbacks, pickRequest>>
    /\ UNCHANGED uploadVars

\* the promise of DocumentPicker.pick settles, and handleFilePickerPromise
\* resumes
FilePickerSettles ==
    /\ api \in {"openSingleFilePicker", "openMultipleFilePicker"}
    /\ ppc = "launched"
    /\ \E s \in PickSettlements(pickRequest.allowMultiSelection) :
        /\ response' = s
        /\ calls' = handleFilePickerPromise(s, callbacks).calls
        /\ outcome' = handleFilePickerPromise(s, callbacks).outcome
    /\ ppc' = "done"
    /\ UNCHANGED <<api, callbacks, pickRequest>>
    /\ UNCHANGED uploadVars

-----------------------------------------------------------------------------
(* The toolbox: one call of one entry point *)

Init ==
    \/ UploadInit
    \/ CameraInit
    \/ ImageLibraryInit
    \/ SingleFilePickerInit
    \/ MultipleFilePickerInit

Next ==
    \/ MapFile
    \/ AwaitPromises
    \/ SettleRequest
    \/ ResumeUpload
    \/ CameraResponds
    \/ ImageLibraryResponds
    \/ FilePickerSettles

Spec == Init /\ [][Next]_vars

-----------------------------------------------------------------------------
(* Properties of uploadFiles *)

StrictMode == strict \in {"true", Undefined}
BestEffortMode == strict = "false"
Delivered == pc = "done"
NonEmpty == Len(files) > 0
Issued == 1..Len(promises)
RejectedRequests == {i \in Issued : promises[i].status = "rejected"}
FulfilledRequests == {i \in Issued : promises[i].status = "fulfilled"}
PendingRequests == {i \in Issued : promises[i].status = "pending"}
AllIssued == Len(promises) = Len(files)
Waiting == pc \in {"await", "done"}

AllSucceeded == [status |-> "ALL_FILES_UPLOADED", ok |-> TRUE]
FailFast(e) == [status |-> "AN_UPLOAD_FAILED", ok |-> FALSE, error |-> e]

\* the request that rejected first in time
FirstRejectedInTime ==
    LET k == CHOOSE k \in 1..Len(settleLog) :
                /\ settleLog[k] \in RejectedRequests
                /\ \A m \in 1..(k - 1) : settleLog[m] \notin RejectedRequests
    IN  settleLog[k]

\* the failing request with the lowest list index
LowestRejected == CHOOSE i \in RejectedRequests : \A k \in RejectedRequests : i <= k

\* fu lists the settled results of the rejected requests, one entry each
IsRejectedSubset(fu) ==
    /\ Len(fu) = Cardinality(RejectedRequests)
    /\ \E f \in [1..Len(fu) -> RejectedRequests] :
        /\ \A a, b \in 1..Len(fu) : a < b => f[a] < f[b]
        /\ \A a \in 1..Len(fu) : fu[a] = promises[f[a]]

\* C1: strict=true, or strict omitted: for a non-empty list, once every
\* request has fulfilled, in whatever order, the awaited promise is
\* fulfilled, and the promise returned resolves with exactly
\* {status: "ALL_FILES_UPLOADED", ok: true}: no error, no failedUploads.
C1_AllSucceeded ==
    (StrictMode /\ NonEmpty /\ Waiting /\ FulfilledRequests = 1..Len(files))
        => /\ joined.status = "fulfilled"
           /\ Delivered => result = Fulfilled(AllSucceeded)

C1_Witness ==
    /\ strict = Undefined /\ Delivered /\ Len(files) = 2
    /\ FulfilledRequests = {1, 2}
    /\ settleLog = <<2, 1>>
    /\ result = Fulfilled(AllSucceeded)

\* C2: strict=true: for a non-empty list, once a request has rejected the
\* awaited promise is rejected, and the promise returned resolves (it does
\* not reject) with exactly {status: "AN_UPLOAD_FAILED", ok: false, error},
\* where error is the reason of the request that rejected first in time;
\* the outcome has no other field.
C2_FailFast ==
    (StrictMode /\ NonEmpty /\ Waiting /\ RejectedRequests # {})
        => /\ joined.status = "rejected"
           /\ Delivered => result = Fulfilled(FailFast(promises[FirstRejectedInTime].reason))

\* two requests rejected with different reasons, the later-indexed one first
C2_Witness ==
    /\ StrictMode /\ Delivered
    /\ Cardinality(RejectedRequests) >= 2
    /\ FirstRejectedInTime # LowestRejected
    /\ promises[FirstRejectedInTime].reason # promises[LowestRejected].reason
    /\ result.value.error = promises[FirstRejectedInTime].reason

\* C3: strict=false: for a non-empty list of which a request fulfilled, the
\* promise returned resolves with status "ONE_OR_MORE_UPLOADS_FAILED" and
\* ok=true, and failedUploads is the list of the settled results of the
\* rejected requests: one entry for each, none for a fulfilled request.
C3_PartialSuccess ==
    (BestEffortMode /\ NonEmpty /\ Delivered /\ FulfilledRequests # {})
        => /\ result.status = "fulfilled"
           /\ DOMAIN result.value = {"status", "ok", "failedUploads"}
           /\ result.value.status = "ONE_OR_MORE_UPLOADS_FAILED"
           /\ result.value.ok = TRUE
           /\ IsRejectedSubset(result.value.failedUploads)
           /\ \A k \in 1..Len(result.value.failedUploads) :
                result.value.failedUploads[k].status = "rejected"

C3_Witness ==
    /\ BestEffortMode /\ Delivered /\ Len(files) = 3
    /\ RejectedRequests = {1, 3} /\ FulfilledRequests = {2}
    /\ result.value.ok = TRUE
    /\ result.value.failedUploads = <<promises[1], promises[3]>>

\* C4: strict=false: for a non-empty list of which every request rejected,
\* the promise returned resolves with ok=false and failedUploads has one
\* entry per submitted file.
C4_AllFailed ==
    (BestEffortMode /\ NonEmpty /\ Delivered /\ RejectedRequests = 1..Len(files))
        => /\ result.status = "fulfilled"
           /\ result.value.ok = FALSE
           /\ Len(result.value.failedUploads) = Len(files)
           /\ IsRejectedSubset(result.value.failedUploads)

C4_Witness ==
    /\ BestEffortMode /\ Delivered /\ Len(files) = 2
    /\ RejectedRequests = {1, 2}
    /\ result.value.ok = FALSE
    /\ Len(result.value.failedUploads) = 2

\* C5: for the empty list, under strict=true and under strict=false, the
\* promise returned resolves without any request having been issued, with
\* ok=true and no failed request reported.
C5_EmptyListSucceeds ==
    (api = "uploadFiles" /\ files = <<>> /\ Delivered)
        => /\ requests = <<>>
           /\ result.status = "fulfilled"
           /\ result.value.ok = TRUE
           /\ ("failedUploads" \in DOMAIN result.value
                  => result.value.failedUploads = <<>>)

\* C6 as stated: strict=true: when the outcome is delivered, every issued
\* request has completed.
C6_NoOutstandingAtDelivery ==
    (StrictMode /\ Delivered) => PendingRequests = {}

\* C6 as amended: strict=true: AllSucceeded is delivered only when every
\* issued request has fulfilled; FailFast is delivered only when a request
\* has rejected, and carries the reason of a rejected request, while other
\* requests may still be outstanding.
C6_DeliveryStrict ==
    (StrictMode /\ Delivered)
        => /\ result.status = "fulfilled"
           /\ result.value.status \in {"ALL_FILES_UPLOADED", "AN_UPLOAD_FAILED"}
           /\ result.value.status = "ALL_FILES_UPLOADED"
                => (AllIssued /\ FulfilledRequests = 1..Len(files))
           /\ result.value.status = "AN_UPLOAD_FAILED"
                => \E i \in RejectedRequests : result.value.error = promises[i].reason

\* FailFast delivered while a request is outstanding
C6_Witness ==
    /\ StrictMode /\ Delivered
    /\ result.value.status = "AN_UPLOAD_FAILED"
    /\ PendingRequests # {}
    /\ settleLog # <<>>

\* C7: the promise returned never rejects: under both values of strict and
\* every order of fulfilments and rejections it is pending until uploadFiles
\* resumes and then fulfilled with an outcome, and a rejection of a request
\* shows only as the outcome's error or in its failedUploads.
C7_NeverRejects ==
    api = "uploadFiles"
        => /\ result.status \in {"pending", "fulfilled"}
           /\ Delivered <=> result.status = "fulfilled"
           /\ (pc = "await" /\ PendingRequests = {}) => joined.status # "pending"
           /\ Delivered
                => /\ result.value.status \in {"ALL_FILES_UPLOADED", "AN_UPLOAD_FAILED",
                                               "ONE_OR_MORE_UPLOADS_FAILED"}
                   /\ result.value.ok \in BOOLEAN
                   /\ (RejectedRequests # {} /\ StrictMode)
                        => "error" \in DOMAIN result.value
                   /\ (RejectedRequests # {} /\ BestEffortMode)
                        => Len(result.value.failedUploads) > 0

C7_Witness ==
    /\ Delivered /\ StrictMode
    /\ PendingRequests = {} /\ RejectedRequests # {} /\ FulfilledRequests # {}
    /\ result.status = "fulfilled"
    /\ result.value.ok = FALSE

\* the i-th request is the POST for the i-th file
IsRequestOf(i) ==
    /\ requests[i].method = "POST"
    /\ requests[i].url = files[i].uploadUrl

\* C8: one POST per submitted file, to its uploadUrl; all of them are
\* issued before uploadFiles waits on any; a request is issued while every
\* earlier one is still outstanding, and none is issued again.
C8_FanOut ==
    /\ [](api = "uploadFiles"
            => /\ Len(requests) = Len(promises)
               /\ Len(requests) <= Len(files)
               /\ \A i \in 1..Len(requests) : IsRequestOf(i)
               /\ Waiting => Len(requests) = Len(files)
               /\ pc = "map" => (joined = NoPromise /\ PendingRequests = Issued))
    /\ [][/\ requests' # requests
             => /\ pc = "map"
                /\ Len(requests') = Len(requests) + 1
                /\ SubSeq(requests', 1, Len(requests)) = requests
                /\ \A i \in 1..Len(promises) : promises[i].status = "pending"
          /\ Waiting => requests' = requests]_vars

C8_Witness ==
    /\ Delivered /\ Len(files) = 3
    /\ files[1] # files[2]
    /\ Len(requests) = 3
    /\ RejectedRequests # {}
    /\ \A i \in 1..3 : IsRequestOf(i)

-----------------------------------------------------------------------------
(* Properties of the pickers *)

ImagePickers == {"Camera.open", "openImageLibrary"}
FilePickers == {"openSingleFilePicker", "openMultipleFilePicker"}
Handled == ppc = "done"

RECURSIVE CallsOf(_, _)
\* the invocations of one callback, in order
CallsOf(cs, fn) ==
    IF cs = <<>> THEN <<>>
    ELSE IF Head(cs).fn = fn THEN <<Head(cs)>> \o CallsOf(Tail(cs), fn)
    ELSE CallsOf(Tail(cs), fn)

ReportsCancel ==
    \/ api \in ImagePickers /\ response.didCancel
    \/ api \in FilePickers /\ response.status = "rejected"
         /\ response.reason.code = "DOCUMENT_PICKER_CANCELED"

ReportsError ==
    \/ api \in ImagePickers /\ ~response.didCancel /\ response.errorCode \in ErrorCodes
    \/ api \in FilePickers /\ response.status = "rejected"
         /\ response.reason.code # "DOCUMENT_PICKER_CANCELED"

\* the arguments that carry the platform's error as reported
ErrorArguments ==
    IF api \in ImagePickers THEN <<response.errorCode, response.errorMessage>>
    ELSE <<response.reason>>

\* C9: for each of the four picker operations: on a cancellation neither
\* callback is invoked; on an error errorCallback is invoked exactly once,
\* with the platform's error code and message as reported.
C9_CancelAndError ==
    Handled
        => /\ ReportsCancel => calls = <<>>
           /\ ReportsError
                => /\ Len(CallsOf(calls, "failure")) = 1
                   /\ CallsOf(calls, "failure")[1].args = ErrorArguments

C9_Witness ==
    /\ Handled /\ api = "openMultipleFilePicker"
    /\ ReportsCancel
    /\ calls = <<>>
    /\ outcome = "resolved"

C9_WitnessError ==
    /\ Handled /\ api = "Camera.open"
    /\ ReportsError
    /\ response.errorMessage # Undefined
    /\ Len(CallsOf(calls, "failure")) = 1

\* C10: Camera.open and openImageLibrary: for every response at most one of
\* the two callbacks is invoked, and a response with an error code never
\* has successCallback called.
C10_OneCallback ==
    (api \in ImagePickers /\ Handled)
        => /\ ~(CallsOf(calls, "success") # <<>> /\ CallsOf(calls, "failure") # <<>>)
           /\ Truthy(response.errorCode) => CallsOf(calls, "success") = <<>>

====
